---- MODULE Spec2Model ----
(***************************************************************************)
(* Model of the Obsidian vault tree manager (src/vault_tree_manager.py):   *)
(* the debounced watch controller (VaultTreeEventHandler and the           *)
(* start/stop/status/update operations of VaultTreeManager), the event     *)
(* filter of on_any_event, the tree renderer (_should_ignore,              *)
(* _generate_tree_structure, _count_items), the activity log sink as far   *)
(* as its calls succeed or raise, and the signal handler of src/main.py.   *)
(*                                                                         *)
(* Strings are sequences of one-character strings, so that substring,      *)
(* prefix and suffix tests are computed as Python computes them.           *)
(*                                                                         *)
(* Five specifications share the module:                                   *)
(*   Spec        the watch controller with its timer and walker threads    *)
(*   ProcessSpec the watch-vault process: one start, then the wait for a   *)
(*               signal                                                    *)
(*   FilterSpec  on_any_event's path filter applied to a bounded set of    *)
(*               events                                                    *)
(*   RenderSpec  renders of a bounded set of directory trees               *)
(*   LogSpec     two concurrent calls of the activity log's JSON append    *)
(***************************************************************************)
EXTENDS Integers, Sequences, FiniteSets, TLC

VARIABLES
    \* ---- watch controller (Spec) ----
    now,          \* time.time(), in whole time units
    is_watching,  \* VaultTreeManager.is_watching
    observer,     \* VaultTreeManager.observer: 0 is None, else the Observer's id
    alive,        \* ids of the Observer threads that are started and not joined
    last_update,  \* handler of observer id -> VaultTreeEventHandler.last_update
    timers,       \* threading.Timer threads waiting: [id, by, deadline]
    regens,       \* timer threads inside update_tree_structure: [id, read]
    nTimers,      \* number of Timer objects created so far
    main,         \* the primary context: [pc, read, wrote]
    tree_file,    \* content of the output file: NoFile, the fs version
                  \* rendered, or TornFile
    fsVersion,    \* version of the vault's directory state
    call,         \* the step just taken, what it reported and what its
                  \* log_activity call did: [op, out, log]
    burst,        \* history: the current burst of accepted events
    lastAccepted, \* history: fs version at the latest accepted event
    walkedMax,    \* history: newest fs version any tree walk has read
    created,      \* history: handler of observer id -> the time it was made
    exit_status,  \* "running", then the process's exit status: "zero" | "nonzero"
    \* ---- event filter (FilterSpec) ----
    f_event,      \* the event handed to on_any_event
    f_outcome,    \* "pending", then "discarded" | "skipped" | "accepted"
    \* ---- tree renderer (RenderSpec) ----
    vault_path,   \* parts of VaultTreeManager.vault_path
    vault,        \* the directory tree below vault_path: set of [path, kind]
    denied,       \* directories (paths below vault_path) whose listing raises
                  \* PermissionError
    tree_lines,   \* result of _generate_tree_structure(vault_path)
    stats,        \* result of _count_items(vault_path)
    r_done,       \* whether a render has run
    renders,      \* number of renders made
    r_prev,       \* history: counters and line count of the render before
                  \* the last
    r_result,     \* "none", then what generate_tree_markdown gave its caller:
                  \* "document" | "error"
    \* ---- activity log (LogSpec) ----
    json_log,     \* management_activities.json: [ok, entries]; ok is whether
                  \* the file holds a complete JSON document
    logger        \* context -> [pc, logs]: a call of _append_json_log, its
                  \* position and its local list

watchVars == <<now, is_watching, observer, alive, last_update, timers, regens,
               nTimers, main, tree_file, fsVersion, call, burst, lastAccepted,
               walkedMax, created, exit_status>>
filterVars == <<f_event, f_outcome>>
renderVars ==
    <<vault_path, vault, denied, tree_lines, stats, r_done, renders, r_prev,
      r_result>>
logVars == <<json_log, logger>>
vars == <<watchVars, filterVars, renderVars, logVars>>

(***************************************************************************)
(* Text                                                                    *)
(***************************************************************************)

\* str.startswith
StartsWith(s, p) == Len(s) >= Len(p) /\ SubSeq(s, 1, Len(p)) = p

\* str.endswith
EndsWith(s, suf) ==
    Len(s) >= Len(suf) /\ SubSeq(s, Len(s) - Len(suf) + 1, Len(s)) = suf

\* the `in` operator on two strings: sub occurs in s
Contains(s, sub) ==
    \E i \in 1..(Len(s) - Len(sub) + 1) : SubSeq(s, i, i + Len(sub) - 1) = sub

\* str(Path): parts[1] is the root "/", the others are joined by "/"
RECURSIVE JoinParts(_)
JoinParts(parts) ==
    IF Len(parts) = 0 THEN <<>>
    ELSE IF Len(parts) = 1 THEN parts[1]
    ELSE parts[1] \o <<"/">> \o JoinParts(Tail(parts))

PathStr(parts) ==
    IF Len(parts) = 0 THEN <<>>
    ELSE IF parts[1] = <<"/">> THEN <<"/">> \o JoinParts(Tail(parts))
    ELSE JoinParts(parts)

\* names used by the code
DotObsidian == <<".","o","b","s","i","d","i","a","n">>
DotGit == <<".","g","i","t">>
DotDSStore == <<".","D","S","_","S","t","o","r","e">>
PyCache == <<"_","_","p","y","c","a","c","h","e","_","_">>
NodeModules == <<"n","o","d","e","_","m","o","d","u","l","e","s">>
DotVscode == <<".","v","s","c","o","d","e">>
DotIdea == <<".","i","d","e","a">>

\* names of the bounded inputs
DotGithub == <<".","g","i","t","h","u","b">>
Notes == <<"n","o","t","e","s">>
AMd == <<"a",".","m","d">>
BTxt == <<"b",".","t","x","t">>
CPng == <<"c",".","p","n","g">>
Archive == <<"a","r","c","h","i","v","e">>
Sub == <<"s","u","b">>
BMd == <<"b",".","m","d">>
OldMd == <<"o","l","d",".","m","d">>
ConfigJson == <<"c","o","n","f","i","g",".","j","s","o","n">>
SlashRoot == <<"/">>
VDir == <<"v">>
DotCfg == <<".","c","f","g">>

SUPPORTED_EXTENSIONS == {<<".","m","d">>, <<".","t","x","t">>}

ignore_patterns ==
    {DotObsidian, DotGit, DotDSStore, PyCache, NodeModules, DotVscode, DotIdea}

\* the vault roots of the bounded inputs: /v and /.cfg/v
VaultRoots == {<<SlashRoot, VDir>>, <<SlashRoot, DotCfg, VDir>>}

(***************************************************************************)
(* on_any_event: the path filter                                           *)
(***************************************************************************)

\* line 42 testing for any dot in the path
HandlerDiscardsAnyDot(src_path) == Contains(src_path, <<".">>)

\* line 42: '/.obsidian' in event.src_path or '/.git' in event.src_path
HandlerDiscards(src_path) ==
    \/ Contains(src_path, <<"/">> \o DotObsidian)
    \/ Contains(src_path, <<"/">> \o DotGit)

\* line 47: event.is_directory or any(src_path.endswith(ext) for ext in ...)
HandlerQualifies(ev) ==
    \/ ev.is_directory
    \/ \E ext \in SUPPORTED_EXTENSIONS : EndsWith(ev.src_path, ext)

\* an event reaches the debounce gate
Accepted(ev) == ~HandlerDiscards(ev.src_path) /\ HandlerQualifies(ev)

\* the event watchdog reports for the entry at root/rel
MkEvent(root, rel, isdir) ==
    [parts |-> root \o rel, src_path |-> PathStr(root \o rel), is_directory |-> isdir]

\* the bound of the filter's input: segments below the root
MaxRelDepth == 2

FilterSegments ==
    {AMd, CPng, Notes, DotGit, DotGithub, NodeModules, DotObsidian, PyCache}

RECURSIVE PathsUpTo(_)
PathsUpTo(n) ==
    IF n = 0 THEN {<<>>}
    ELSE LET shorter == PathsUpTo(n - 1)
         IN  shorter \cup {Append(q, seg) : q \in shorter, seg \in FilterSegments}

FilterEvents ==
    { MkEvent(root, rel, isdir) :
        root \in VaultRoots, rel \in PathsUpTo(MaxRelDepth) \ {<<>>},
        isdir \in BOOLEAN }

\* on_any_event, lines 42-47, up to the debounce gate
FilterEvent ==
    /\ f_outcome = "pending"
    /\ f_outcome' = IF HandlerDiscards(f_event.src_path) THEN "discarded"
                    ELSE IF ~HandlerQualifies(f_event) THEN "skipped"
                    ELSE "accepted"
    /\ UNCHANGED f_event

(***************************************************************************)
(* The tree renderer                                                       *)
(***************************************************************************)

\* code points of the characters of the names
Code ==
    "." :> 46 @@ "/" :> 47 @@ "D" :> 68 @@ "S" :> 83 @@ "_" :> 95 @@ "a" :> 97
    @@ "b" :> 98 @@ "c" :> 99 @@ "d" :> 100 @@ "e" :> 101 @@ "f" :> 102
    @@ "g" :> 103 @@ "h" :> 104 @@ "i" :> 105 @@ "j" :> 106 @@ "l" :> 108 @@ "m" :> 109
    @@ "n" :> 110 @@ "o" :> 111 @@ "p" :> 112 @@ "r" :> 114 @@ "s" :> 115
    @@ "t" :> 116 @@ "u" :> 117 @@ "v" :> 118 @@ "x" :> 120 @@ "y" :> 121

\* str.__lt__: the order sorted() puts sibling paths in
RECURSIVE StrLess(_, _)
StrLess(a, b) ==
    IF Len(b) = 0 THEN FALSE
    ELSE IF Len(a) = 0 THEN TRUE
    ELSE IF a[1] /= b[1] THEN Code[a[1]] < Code[b[1]]
    ELSE StrLess(Tail(a), Tail(b))

Last(q) == q[Len(q)]

\* sorted(items, reverse=True)
RECURSIVE SortedDescending(_)
SortedDescending(items) ==
    IF items = {} THEN <<>>
    ELSE LET first == CHOOSE e \in items :
                        \A o \in items \ {e} : StrLess(Last(o.path), Last(e.path))
         IN  <<first>> \o SortedDescending(items \ {first})

\* sorted(items): by name, the items being siblings
RECURSIVE Sorted(_)
Sorted(items) ==
    IF items = {} THEN <<>>
    ELSE LET first == CHOOSE e \in items :
                        \A o \in items \ {e} : StrLess(Last(e.path), Last(o.path))
         IN  <<first>> \o Sorted(items \ {first})

\* PurePath.suffix
Suffix(name) ==
    LET dots == {i \in 1..Len(name) : name[i] = "."}
    IN  IF dots = {} THEN <<>>
        ELSE LET i == CHOOSE d \in dots : \A o \in dots : o <= d
             IN  IF 1 < i /\ i < Len(name) THEN SubSeq(name, i, Len(name)) ELSE <<>>

\* any(item.name.endswith(ext) for ext in SUPPORTED_EXTENSIONS)
HasSupportedExtension(name) == \E ext \in SUPPORTED_EXTENSIONS : EndsWith(name, ext)

\* _should_ignore testing the item's own name alone
ShouldIgnoreNameOnly(parts) ==
    Last(parts) \in ignore_patterns \/ StartsWith(Last(parts), <<".">>)

\* _should_ignore, lines 99-102: any part of the path, the root's included
ShouldIgnore(parts) ==
    \E i \in 1..Len(parts) :
        parts[i] \in ignore_patterns \/ StartsWith(parts[i], <<".">>)

\* directory.iterdir(): the entries of fs directly below the directory at rel
IterDir(fs, rel) ==
    {e \in fs : Len(e.path) = Len(rel) + 1 /\ SubSeq(e.path, 1, Len(rel)) = rel}

\* line 170, the except branch swallowing the error without a line
PermissionDeniedSilent(prefix, rel) == <<>>

\* line 170: except PermissionError, the marker line of the directory at rel
PermissionDeniedLines(prefix, rel) ==
    <<[prefix |-> prefix, branch |-> "tee", kind |-> "denied", icon |-> "cross",
       name |-> <<>>, item |-> rel, parent |-> rel]>>

\* _generate_tree_structure, lines 117-174, for the directory at rel below
\* root; den are the directories whose iterdir() raises PermissionError.
\* A line is [prefix, branch, kind, icon, name, item, parent]: prefix is the
\* sequence of continuation units ("bar" for '│   ', "gap" for '    '),
\* branch is "tee" for '├── ' and "corner" for '└── ', item is the path the
\* line was made for and parent the directory whose listing made it.
RECURSIVE GenerateTreeStructure(_, _, _, _, _)
GenerateTreeStructure(fs, root, rel, prefix, den) ==
    IF rel \in den THEN PermissionDeniedLines(prefix, rel)
    ELSE
    LET items == {e \in IterDir(fs, rel) : ~ShouldIgnore(root \o e.path)}
        directories == Sorted({e \in items : e.kind = "dir"})
        files == Sorted({e \in items :
                           e.kind = "file" /\ HasSupportedExtension(Last(e.path))})
        all_items == directories \o files
        LinesOf[i \in 0..Len(all_items)] ==
            IF i = 0 THEN <<>>
            ELSE LET item == all_items[i]
                     is_last_item == i = Len(all_items)
                     next_prefix == Append(prefix, IF is_last_item THEN "gap" ELSE "bar")
                     line == [prefix |-> prefix,
                              branch |-> IF is_last_item THEN "corner" ELSE "tee",
                              kind |-> item.kind,
                              icon |-> IF item.kind = "dir" THEN "folder"
                                       ELSE IF Suffix(Last(item.path)) = <<".","m","d">>
                                       THEN "note" ELSE "page",
                              name |-> Last(item.path),
                              item |-> item.path,
                              parent |-> rel]
                 IN  LinesOf[i - 1] \o <<line>> \o
                     (IF item.kind = "dir"
                      THEN GenerateTreeStructure(fs, root, item.path, next_prefix, den)
                      ELSE <<>>)
    IN  LinesOf[Len(all_items)]

\* directory.glob('*'): the entries of the root alone
RGlobOneLevel(fs, den) == {e \in fs : Len(e.path) = 1 /\ <<>> \notin den}

\* directory.rglob('*'): every entry below the root that can be reached
\* without listing a directory of den (rglob passes over a directory it may
\* not list)
RGlob(fs, den) ==
    {e \in fs : \A k \in 0..(Len(e.path) - 1) : SubSeq(e.path, 1, k) \notin den}

ZeroStats ==
    [total_folders |-> 0, total_files |-> 0, md_files |-> 0, other_files |-> 0]

\* the counters of the call before kept in place of lines 187-192
InitialStatsKept == stats

\* _count_items, lines 187-192: the counters a walk begins with
InitialStats == ZeroStats

\* _count_items, lines 187-210
CountItems(fs, root, den) ==
    LET seen == {e \in RGlob(fs, den) : ~ShouldIgnore(root \o e.path)}
        fileset == {e \in seen : e.kind = "file"}
        md == {e \in fileset : Suffix(Last(e.path)) = <<".","m","d">>}
    IN  [total_folders |-> InitialStats.total_folders
                             + Cardinality({e \in seen : e.kind = "dir"}),
         total_files |-> InitialStats.total_files + Cardinality(fileset),
         md_files |-> InitialStats.md_files + Cardinality(md),
         other_files |-> InitialStats.other_files
                           + Cardinality({e \in fileset \ md :
                                            HasSupportedExtension(Last(e.path))})]

\* the bound of the renderer's input: entries in the vault
MaxEntries == 5

Dir(q) == [path |-> q, kind |-> "dir"]
File(q) == [path |-> q, kind |-> "file"]

\* the bound of the renderer's input: directories that may not be listed
MaxDenied == 1

\* the bound of the renderer's runs: renders of one vault
MaxRenders == 2

\* the entries the bounded vaults are made of
Candidates ==
    { Dir(<<Notes>>), Dir(<<Archive>>), Dir(<<NodeModules>>), Dir(<<DotGit>>),
      File(<<AMd>>), File(<<CPng>>), File(<<DotDSStore>>),
      File(<<Notes, AMd>>), File(<<Notes, BTxt>>), Dir(<<Notes, PyCache>>),
      Dir(<<Notes, DotGithub>>), Dir(<<Notes, Sub>>), File(<<Notes, Sub, AMd>>),
      File(<<Archive, OldMd>>), File(<<NodeModules, AMd>>),
      File(<<DotGit, AMd>>) }

\* a vault holds the parent directory of each of its entries
Vaults ==
    { fs \in SUBSET Candidates :
        /\ Cardinality(fs) <= MaxEntries
        /\ \A e \in fs : Len(e.path) > 1 =>
              Dir(SubSeq(e.path, 1, Len(e.path) - 1)) \in fs }

\* the vault of the scenario of section 8: notes/a.md, notes/b.md,
\* archive/old.md and .obsidian/config.json
ScenarioVault ==
    { Dir(<<Notes>>), File(<<Notes, AMd>>), File(<<Notes, BMd>>),
      Dir(<<Archive>>), File(<<Archive, OldMd>>),
      Dir(<<DotObsidian>>), File(<<DotObsidian, ConfigJson>>) }

\* the directories of a vault, the root included
DirsOf(fs) == {<<>>} \cup {e.path : e \in {x \in fs : x.kind = "dir"}}

\* generate_tree_markdown, lines 222-333: the counters (225), the tree body
\* (262), then log_activity (305); when the sink raises, the except branch
\* logs again and raises to the caller
GenerateTreeMarkdown(sink_ok) ==
    /\ renders < MaxRenders
    /\ renders' = renders + 1
    /\ r_prev' = [stats |-> stats, lines |-> Len(tree_lines)]
    /\ stats' = CountItems(vault, vault_path, denied)
    /\ tree_lines' = GenerateTreeStructure(vault, vault_path, <<>>, <<>>, denied)
    /\ r_done' = TRUE
    /\ r_result' = IF sink_ok THEN "document" ELSE "error"
    /\ UNCHANGED <<vault_path, vault, denied>>

(***************************************************************************)
(* The watch controller                                                    *)
(***************************************************************************)

\* bounds of the model
MaxTime == 5
MaxEvents == 2
MaxSessions == 2

\* VaultTreeEventHandler.update_delay
update_delay == 2

NoFile == [exists |-> FALSE, version |-> 0]
FileOf(v) == [exists |-> TRUE, version |-> v]

\* the file after open(..., 'w') truncated it and the write did not finish
TornFile == [exists |-> TRUE, version |-> 0 - 1]

\* how update_tree_structure can end apart from the sink: the document is
\* written, generate_tree_markdown raises, or open/write raises
UpdateOutcomes == {"ok", "render_failed", "write_failed"}

\* update_tree_structure, lines 345-353, with the log_activity call of
\* generate_tree_markdown (line 305) raising or not: what the call ends as
UpdateOut(res, log_ok) ==
    IF res = "render_failed" THEN "render_failed"
    ELSE IF ~log_ok THEN "sink_failed"
    ELSE res

\* the file opened for writing before the document is produced
FileAfterUpdateOpenFirst(out, old, read, torn) ==
    IF out = "ok" THEN FileOf(read) ELSE TornFile

\* lines 346-350: the file is opened and written after generate_tree_markdown
\* has returned; a failing write leaves it as it was (open raised) or torn
FileAfterUpdate(out, old, read, torn) ==
    IF out = "ok" THEN FileOf(read)
    ELSE IF out = "write_failed" /\ torn THEN TornFile
    ELSE old

NoBurst == [n |-> 0, sched |-> 0, last |-> 0]

Max(a, b) == IF a >= b THEN a ELSE b

\* the events of the bounded input: a note, a picture, a directory, and a
\* note under .git, all below /v
WatchEvents ==
    { MkEvent(<<SlashRoot, VDir>>, <<AMd>>, FALSE),
      MkEvent(<<SlashRoot, VDir>>, <<CPng>>, FALSE),
      MkEvent(<<SlashRoot, VDir>>, <<Notes>>, TRUE),
      MkEvent(<<SlashRoot, VDir>>, <<DotGit, AMd>>, FALSE) }

\* line 49 with the gate removed: every accepted event schedules
GateOpenAlways(last) == now - last >= 0

\* line 49: current_time - self.last_update > self.update_delay
GateOpen(last) == now - last > update_delay

\* line 53 with no interval: the Timer is due at once
NewTimerImmediate(h) == [id |-> nTimers + 1, by |-> h, deadline |-> now]

\* line 53: threading.Timer(self.update_delay, ...) made by the handler h
NewTimer(h) == [id |-> nTimers + 1, by |-> h, deadline |-> now + update_delay]

\* line 360 skipped
AlreadyWatchingNever == FALSE

\* line 360: if self.is_watching
AlreadyWatching == is_watching

\* line 417 testing the observer alone
NotWatchingObserverOnly == observer = 0

\* line 417: if not self.is_watching or not self.observer
NotWatching == ~is_watching \/ observer = 0

\* what a step's first call of log_activity did
LogOutcome(log_ok) == IF log_ok THEN "ok" ELSE "raised"

WatchInit ==
    /\ now = 0
    /\ is_watching = FALSE
    /\ observer = 0
    /\ alive = {}
    /\ last_update = <<>>
    /\ timers = {}
    /\ regens = {}
    /\ nTimers = 0
    /\ main = [pc |-> "idle", read |-> 0, wrote |-> FALSE]
    /\ tree_file = NoFile
    /\ fsVersion = 0
    /\ call = [op |-> "init", out |-> "ok", log |-> "none"]
    /\ burst = NoBurst
    /\ lastAccepted = 0
    /\ walkedMax = 0
    /\ created = <<>>
    /\ exit_status = "running"

\* time passes; a Timer whose interval has elapsed runs before the next unit
Tick ==
    /\ now < MaxTime
    /\ main.pc \notin {"start_flag", "exited"}
    /\ \A t \in timers : t.deadline > now
    /\ now' = now + 1
    /\ call' = [op |-> "tick", out |-> "ok", log |-> "none"]
    /\ UNCHANGED <<is_watching, observer, alive, last_update, timers, regens,
                   nTimers, main, tree_file, fsVersion, burst, lastAccepted,
                   walkedMax>>
    /\ UNCHANGED <<created, exit_status, filterVars, renderVars, logVars>>

\* start_watching, lines 360-368: the guard, then the walk of the synchronous
\* update_tree_structure
StartWatching ==
    /\ main.pc = "idle"
    /\ IF AlreadyWatching
       THEN /\ call' = [op |-> "start_watching", out |-> "warning", log |-> "none"]
            /\ UNCHANGED <<main, walkedMax>>
       ELSE /\ observer < MaxSessions
            /\ main' = [pc |-> "start_write", read |-> fsVersion, wrote |-> FALSE]
            /\ walkedMax' = Max(walkedMax, fsVersion)
            /\ call' = [op |-> "start_watching", out |-> "walking", log |-> "none"]
    /\ UNCHANGED <<now, is_watching, observer, alive, last_update, timers,
                   regens, nTimers, tree_file, fsVersion, burst, lastAccepted>>
    /\ UNCHANGED <<created, exit_status, filterVars, renderVars, logVars>>

\* update_tree_structure called by start_watching, lines 345-353: the write,
\* or the except branch when rendering or writing raised; log_ok is whether
\* the log_activity calls of generate_tree_markdown (lines 305, 324) return:
\* when they raise, generate_tree_markdown raises and nothing is written
StartUpdateTree(res, log_ok, torn) ==
    /\ main.pc = "start_write"
    /\ tree_file' = FileAfterUpdate(UpdateOut(res, log_ok), tree_file,
                                    main.read, torn)
    /\ main' = [main EXCEPT !.pc = "start_observe",
                            !.wrote = (UpdateOut(res, log_ok) = "ok")]
    /\ call' = [op |-> "start_update",
                out |-> UpdateOut(res, log_ok),
                log |-> LogOutcome(log_ok)]
    /\ UNCHANGED <<now, is_watching, observer, alive, last_update, timers,
                   regens, nTimers, fsVersion, burst, lastAccepted, walkedMax>>
    /\ UNCHANGED <<created, exit_status, filterVars, renderVars, logVars>>

\* start_watching, lines 372-378: the Observer is made, scheduled and
\* started (ok), or one of these raises and the except branch of line 398
\* reports the failure and calls log_activity (line 404), which returns
\* (relog_ok) or raises to the caller
StartObserve(ok, relog_ok) ==
    /\ main.pc = "start_observe"
    /\ observer' = observer + 1
    /\ last_update' = Append(last_update, now)
    /\ created' = Append(created, now)
    /\ UNCHANGED exit_status
    /\ alive' = IF ok THEN alive \cup {observer + 1} ELSE alive
    /\ main' = [main EXCEPT !.pc = IF ok THEN "start_flag" ELSE "idle"]
    /\ burst' = NoBurst
    /\ call' = [op |-> "start_observe",
                out |-> IF ok THEN "started"
                        ELSE IF relog_ok THEN "error" ELSE "raised",
                log |-> IF ok THEN "none" ELSE LogOutcome(relog_ok)]
    /\ UNCHANGED <<now, is_watching, timers, regens, nTimers, tree_file,
                   fsVersion, lastAccepted, walkedMax>>
    /\ UNCHANGED <<filterVars, renderVars, logVars>>

\* start_watching, lines 379-396: the flag, then log_activity (line 388);
\* when it raises (~log_ok) the except branch of line 398 reports a failure
\* and calls log_activity again (line 404), which returns or raises
StartFlag(log_ok, relog_ok) ==
    /\ main.pc = "start_flag"
    /\ is_watching' = TRUE
    /\ main' = [main EXCEPT !.pc = "idle"]
    /\ call' = [op |-> "start_flag",
                out |-> IF log_ok THEN "ok"
                        ELSE IF relog_ok THEN "error" ELSE "raised",
                log |-> LogOutcome(log_ok)]
    /\ UNCHANGED <<now, observer, alive, last_update, timers, regens, nTimers,
                   tree_file, fsVersion, burst, lastAccepted, walkedMax>>
    /\ UNCHANGED <<created, exit_status, filterVars, renderVars, logVars>>

\* stop_watching, lines 417-451: the guard; else stop, join, the flag, then
\* log_activity (line 432), and when it raises the except branch of line 439
\* with its own log_activity (line 445)
StopWatching(log_ok, relog_ok) ==
    /\ main.pc = "idle"
    /\ IF NotWatching
       THEN /\ call' = [op |-> "stop_watching", out |-> "warning", log |-> "none"]
            /\ UNCHANGED <<alive, is_watching, burst>>
       ELSE /\ alive' = alive \ {observer}
            /\ is_watching' = FALSE
            /\ burst' = NoBurst
            /\ call' = [op |-> "stop_watching",
                        out |-> IF log_ok THEN "ok"
                                ELSE IF relog_ok THEN "error" ELSE "raised",
                        log |-> LogOutcome(log_ok)]
    /\ UNCHANGED <<now, observer, last_update, timers, regens, nTimers, main,
                   tree_file, fsVersion, lastAccepted, walkedMax>>
    /\ UNCHANGED <<created, exit_status, filterVars, renderVars, logVars>>

\* line 462 reporting the Observer handle in place of the flag
StatusFromObserver == observer /= 0

\* line 462: 'is_watching': self.is_watching
StatusIsWatching == is_watching

\* get_status, lines 461-470: the flag and the output file's metadata
GetStatus ==
    /\ main.pc = "idle"
    /\ call' = [op |-> "get_status",
                out |-> IF StatusIsWatching THEN "watching" ELSE "idle",
                log |-> "none"]
    /\ UNCHANGED <<now, is_watching, observer, alive, last_update, timers,
                   regens, nTimers, main, tree_file, fsVersion, burst,
                   lastAccepted, walkedMax>>
    /\ UNCHANGED <<created, exit_status, filterVars, renderVars, logVars>>

\* signal_handler of main.py, lines 35-43, run in the primary context at
\* whatever statement the signal interrupts: stop_watching when the flag is
\* set, then sys.exit(0)
SignalHandler(log_ok) ==
    /\ main.pc /= "exited"
    /\ IF is_watching
       THEN /\ alive' = IF NotWatching THEN alive ELSE alive \ {observer}
            /\ is_watching' = (IF NotWatching THEN is_watching ELSE FALSE)
            /\ call' = [op |-> "signal", out |-> "stopped", log |-> LogOutcome(log_ok)]
       ELSE /\ call' = [op |-> "signal", out |-> "skipped", log |-> "none"]
            /\ UNCHANGED <<alive, is_watching>>
    /\ main' = [main EXCEPT !.pc = "exited"]
    /\ exit_status' = "zero"
    /\ UNCHANGED <<now, observer, last_update, timers, regens, nTimers,
                   tree_file, fsVersion, burst, lastAccepted, walkedMax>>
    /\ UNCHANGED <<created, filterVars, renderVars, logVars>>

\* __main__ of main.py, lines 408-417: an exception escapes a command run
\* in place of watch-vault; the except branch prints and logs it and the
\* script ends, with no call of sys.exit
CommandRaises ==
    /\ main.pc = "idle"
    /\ observer = 0
    /\ main' = [main EXCEPT !.pc = "exited"]
    /\ exit_status' = "zero"
    /\ call' = [op |-> "command_error", out |-> "printed", log |-> "none"]
    /\ UNCHANGED <<now, is_watching, observer, alive, last_update, timers,
                   regens, nTimers, tree_file, fsVersion, burst, lastAccepted,
                   walkedMax>>
    /\ UNCHANGED <<created, filterVars, renderVars, logVars>>

\* the stop-watch command of main.py, lines 322-337, run as its own process
\* while the watch-vault process runs: the module's global tree_manager is
\* None in the new process (line 33), so the else branch reports that no
\* monitoring is active and the watching process is not reached
StopWatchCommand ==
    /\ main.pc /= "exited"
    /\ call' = [op |-> "stop_watch_command", out |-> "no_active_monitoring",
                log |-> "none"]
    /\ UNCHANGED <<now, is_watching, observer, alive, last_update, timers,
                   regens, nTimers, main, tree_file, fsVersion, burst,
                   lastAccepted, walkedMax>>
    /\ UNCHANGED <<created, exit_status, filterVars, renderVars, logVars>>

\* the vault changes and the running Observer h hands the event to its
\* handler: on_any_event, lines 42-53
OnAnyEvent(h, ev) ==
    /\ h \in alive
    /\ main.pc /= "exited"
    /\ fsVersion < MaxEvents
    /\ fsVersion' = fsVersion + 1
    /\ IF HandlerDiscards(ev.src_path)
       THEN /\ call' = [op |-> "on_any_event", out |-> "discarded", log |-> "none"]
            /\ UNCHANGED <<last_update, timers, nTimers, burst, lastAccepted>>
       ELSE IF ~HandlerQualifies(ev)
       THEN /\ call' = [op |-> "on_any_event", out |-> "skipped", log |-> "none"]
            /\ UNCHANGED <<last_update, timers, nTimers, burst, lastAccepted>>
       ELSE LET open == GateOpen(last_update[h])
                fresh == burst.n = 0 \/ now - burst.last >= update_delay
            IN  /\ lastAccepted' = fsVersion + 1
                /\ burst' = [n |-> IF fresh THEN 1 ELSE burst.n + 1,
                             sched |-> (IF fresh THEN 0 ELSE burst.sched)
                                       + (IF open THEN 1 ELSE 0),
                             last |-> now]
                /\ IF open
                   THEN /\ last_update' = [last_update EXCEPT ![h] = now]
                        /\ timers' = timers \cup {NewTimer(h)}
                        /\ nTimers' = nTimers + 1
                        /\ call' = [op |-> "on_any_event", out |-> "scheduled", log |-> "none"]
                   ELSE /\ call' = [op |-> "on_any_event", out |-> "absorbed", log |-> "none"]
                        /\ UNCHANGED <<last_update, timers, nTimers>>
    /\ UNCHANGED <<now, is_watching, observer, alive, regens, main, tree_file,
                   walkedMax>>
    /\ UNCHANGED <<created, exit_status, filterVars, renderVars, logVars>>

\* the vault changes while no Observer is running
FsChange ==
    /\ alive = {}
    /\ main.pc /= "exited"
    /\ fsVersion < MaxEvents
    /\ fsVersion' = fsVersion + 1
    /\ call' = [op |-> "fs_change", out |-> "ok", log |-> "none"]
    /\ UNCHANGED <<now, is_watching, observer, alive, last_update, timers,
                   regens, nTimers, main, tree_file, burst, lastAccepted,
                   walkedMax>>
    /\ UNCHANGED <<created, exit_status, filterVars, renderVars, logVars>>

\* a Timer's interval has elapsed: its thread enters update_tree_structure
\* and walks the vault (generate_tree_markdown, line 341)
TimerFire(t) ==
    /\ t \in timers
    /\ main.pc /= "exited"
    /\ t.deadline <= now
    /\ timers' = timers \ {t}
    /\ regens' = regens \cup {[id |-> t.id, read |-> fsVersion]}
    /\ walkedMax' = Max(walkedMax, fsVersion)
    /\ call' = [op |-> "timer", out |-> "walking", log |-> "none"]
    /\ UNCHANGED <<now, is_watching, observer, alive, last_update, nTimers,
                   main, tree_file, fsVersion, burst, lastAccepted>>
    /\ UNCHANGED <<created, exit_status, filterVars, renderVars, logVars>>

\* a timer thread finishes update_tree_structure, lines 345-353: the write,
\* or the except branch; log_ok as in StartUpdateTree
TimerUpdateTree(r, res, log_ok, torn) ==
    /\ r \in regens
    /\ main.pc /= "exited"
    /\ regens' = regens \ {r}
    /\ tree_file' = FileAfterUpdate(UpdateOut(res, log_ok), tree_file,
                                    r.read, torn)
    /\ call' = [op |-> "timer_update",
                out |-> UpdateOut(res, log_ok),
                log |-> LogOutcome(log_ok)]
    /\ UNCHANGED <<now, is_watching, observer, alive, last_update, timers,
                   nTimers, main, fsVersion, burst, lastAccepted, walkedMax>>
    /\ UNCHANGED <<created, exit_status, filterVars, renderVars, logVars>>

(***************************************************************************)
(* The activity log                                                        *)
(***************************************************************************)

\* _append_json_log, line 141: the number of entries kept
LogCap == 100

\* the contexts that call log_activity: a timer-fired regeneration
\* (generate_tree_markdown, line 305) and the primary context
\* (start_watching, line 388, or stop_watching, line 432)
LogContexts == {"timer", "main"}

\* the numbers of entries in the file before the calls
InitialLogLengths == {0, 1, LogCap - 1, LogCap}

\* a log file of n earlier entries
OldLog(n) == [ok |-> TRUE, entries |-> [i \in 1..n |-> "old"]]

\* a log file that does not parse: one cut short by open(..., 'w'), or one
\* damaged before the calls
UnreadableLog == [ok |-> FALSE, entries |-> <<>>]

\* lines 141-142: logs[-100:]
KeepLast(logs) ==
    IF Len(logs) > LogCap
    THEN SubSeq(logs, Len(logs) - LogCap + 1, Len(logs))
    ELSE logs

LogIdle ==
    /\ json_log = OldLog(0)
    /\ logger = [c \in LogContexts |-> [pc |-> "idle", logs |-> <<>>]]

\* _append_json_log, lines 122-132: the file is read into logs; a file that
\* does not parse gives the empty list (the bare except of line 131)
LogRead(c) ==
    /\ logger[c].pc = "idle"
    /\ logger' = [logger EXCEPT ![c] =
                    [pc |-> "loaded",
                     logs |-> IF json_log.ok THEN json_log.entries ELSE <<>>]]
    /\ UNCHANGED json_log
    /\ UNCHANGED <<watchVars, filterVars, renderVars>>

\* lines 136-146 up to open(..., 'w'): the entry is appended, the list is
\* cut to the last LogCap entries and the file is truncated
LogOpen(c) ==
    /\ logger[c].pc = "loaded"
    /\ logger' = [logger EXCEPT ![c] =
                    [pc |-> "writing", logs |-> KeepLast(Append(logger[c].logs, c))]]
    /\ json_log' = UnreadableLog
    /\ UNCHANGED <<watchVars, filterVars, renderVars>>

\* lines 145-146: json.dump writes the list and the file is closed
LogDump(c) ==
    /\ logger[c].pc = "writing"
    /\ logger' = [logger EXCEPT ![c] = [pc |-> "done", logs |-> <<>>]]
    /\ json_log' = [ok |-> TRUE, entries |-> logger[c].logs]
    /\ UNCHANGED <<watchVars, filterVars, renderVars>>

FilterIdle ==
    /\ f_event = MkEvent(<<SlashRoot, VDir>>, <<AMd>>, FALSE)
    /\ f_outcome = "pending"

RenderIdle ==
    /\ vault_path = <<SlashRoot, VDir>>
    /\ vault = {}
    /\ denied = {}
    /\ r_result = "none"
    /\ tree_lines = <<>>
    /\ stats = ZeroStats
    /\ r_done = FALSE
    /\ renders = 0
    /\ r_prev = [stats |-> ZeroStats, lines |-> 0]

Init == WatchInit /\ FilterIdle /\ RenderIdle /\ LogIdle

Next ==
    \/ Tick
    \/ StartWatching
    \/ \E res \in UpdateOutcomes, log_ok, torn \in BOOLEAN :
          StartUpdateTree(res, log_ok, torn)
    \/ \E ok, relog_ok \in BOOLEAN : StartObserve(ok, relog_ok)
    \/ \E log_ok, relog_ok \in BOOLEAN : StartFlag(log_ok, relog_ok)
    \/ \E log_ok, relog_ok \in BOOLEAN : StopWatching(log_ok, relog_ok)
    \/ GetStatus
    \/ \E h \in alive, ev \in WatchEvents : OnAnyEvent(h, ev)
    \/ FsChange
    \/ \E t \in timers : TimerFire(t)
    \/ \E r \in regens, res \in UpdateOutcomes, log_ok, torn \in BOOLEAN :
          TimerUpdateTree(r, res, log_ok, torn)

Spec == Init /\ [][Next]_vars

\* the watch-vault command of main.py, lines 283-320: one process that
\* starts watching and then waits in its loop until a signal is delivered
ProcessNext ==
    \/ Tick
    \/ StartWatching
    \/ \E res \in UpdateOutcomes, log_ok, torn \in BOOLEAN :
          StartUpdateTree(res, log_ok, torn)
    \/ \E ok, relog_ok \in BOOLEAN : StartObserve(ok, relog_ok)
    \/ \E log_ok, relog_ok \in BOOLEAN : StartFlag(log_ok, relog_ok)
    \/ \E log_ok \in BOOLEAN : SignalHandler(log_ok)
    \/ CommandRaises
    \/ StopWatchCommand
    \/ \E h \in alive, ev \in WatchEvents : OnAnyEvent(h, ev)
    \/ FsChange
    \/ \E t \in timers : TimerFire(t)
    \/ \E r \in regens, res \in UpdateOutcomes, log_ok, torn \in BOOLEAN :
          TimerUpdateTree(r, res, log_ok, torn)

ProcessSpec == Init /\ [][ProcessNext]_vars

FilterInit ==
    /\ WatchInit
    /\ RenderIdle
    /\ LogIdle
    /\ f_event \in FilterEvents
    /\ f_outcome = "pending"

FilterNext == FilterEvent /\ UNCHANGED <<watchVars, renderVars, logVars>>

FilterSpec == FilterInit /\ [][FilterNext]_vars

RenderInit ==
    /\ WatchInit
    /\ FilterIdle
    /\ LogIdle
    /\ vault_path \in VaultRoots
    /\ vault \in Vaults \cup {ScenarioVault}
    /\ denied \in {d \in SUBSET DirsOf(vault) : Cardinality(d) <= MaxDenied}
    /\ r_result = "none"
    /\ tree_lines = <<>>
    /\ stats = ZeroStats
    /\ r_done = FALSE
    /\ renders = 0
    /\ r_prev = [stats |-> ZeroStats, lines |-> 0]

RenderNext ==
    /\ \E sink_ok \in BOOLEAN : GenerateTreeMarkdown(sink_ok)
    /\ UNCHANGED <<watchVars, filterVars, logVars>>

RenderSpec == RenderInit /\ [][RenderNext]_vars

LogInit ==
    /\ WatchInit
    /\ FilterIdle
    /\ RenderIdle
    /\ json_log \in {OldLog(n) : n \in InitialLogLengths} \cup {UnreadableLog}
    /\ logger = [c \in LogContexts |-> [pc |-> "idle", logs |-> <<>>]]

LogNext ==
    \/ \E c \in LogContexts : LogRead(c)
    \/ \E c \in LogContexts : LogOpen(c)
    \/ \E c \in LogContexts : LogDump(c)

LogSpec == LogInit /\ [][LogNext]_vars


(***************************************************************************)
(* Properties of the watch controller                                      *)
(***************************************************************************)

\* regenerations executing: timer threads inside update_tree_structure, and
\* the primary context inside the one start_watching calls
Executing == Cardinality(regens) + (IF main.pc = "start_write" THEN 1 ELSE 0)

\* C1: a burst of N >= 1 accepted events, each less than one quiet window
\* after the one before, delivered to an active session, triggers exactly one
\* timer regeneration: never more than one, and one once the window after
\* its last event has elapsed, wherever the burst lies in the session.
C1_DebounceSingleFlight ==
    (is_watching /\ burst.n >= 1) =>
        /\ burst.sched <= 1
        /\ (now >= burst.last + update_delay => burst.sched = 1)

C3_NoOverlappingRegenerations == Executing <= 1

\* C4: after a successful stop, and until a later start, no pending Timer
\* fires: the regeneration it would run never begins.
C4_StopCancelsPending ==
    [][(~is_watching /\ main.pc = "idle") => timers \subseteq timers']_vars

\* C5: while the session is active every accepted event is followed by a
\* tree walk at or after the event: once nothing is scheduled or running any
\* more, some walk has read the state of the latest accepted event.
C5_AcceptedEventIsRendered ==
    (is_watching /\ timers = {} /\ regens = {}) => walkedMax >= lastAccepted

\* C6: start_watching called while is_watching is true only warns: the
\* observer, the running listeners, the flag and the output file are
\* unchanged and no walk is made; and never more than one listener runs.
C6_StartWhileActiveIsNoOp ==
    /\ [][(is_watching /\ call'.op = "start_watching") =>
            /\ call'.out = "warning"
            /\ UNCHANGED <<observer, alive, is_watching, tree_file, main,
                           last_update, timers, regens, walkedMax>>]_vars
    /\ [](Cardinality(alive) <= 1 /\ (is_watching => alive = {observer}))

\* start_watching has just warned about a running session
C6_Witness ==
    /\ call.op = "start_watching" /\ call.out = "warning"
    /\ is_watching
    /\ alive = {observer}

\* C7: stop_watching called when no session is active (after a stop, or
\* before any start) only warns: no error, no listener touched, is_watching
\* stays false.
C7_StopIsIdempotent ==
    [][(~is_watching /\ call'.op = "stop_watching") =>
            /\ call'.out = "warning"
            /\ ~is_watching'
            /\ UNCHANGED <<observer, alive, last_update, timers, regens,
                           tree_file, main>>]_vars

\* stop_watching has just warned after a session was started and stopped
C7_Witness ==
    /\ call.op = "stop_watching" /\ call.out = "warning"
    /\ observer >= 1
    /\ alive = {}
    /\ ~is_watching

\* C8: when is_watching has just become true, the output file exists and
\* holds the directory state that start's synchronous regeneration read.
C8_FileReflectsStartState ==
    [][(~is_watching /\ is_watching') =>
            (tree_file'.exists /\ tree_file' = FileOf(main.read))]_vars

(***************************************************************************)
(* Properties of the event filter and of the renderer                      *)
(***************************************************************************)

\* some segment of the path is a member of the ignore set
HasIgnoreSetSegment(parts) == \E i \in 1..Len(parts) : parts[i] \in ignore_patterns

\* some segment of the path is a member of the ignore set or begins with a dot
HasIgnoredSegment(parts) ==
    \E i \in 1..Len(parts) : parts[i] \in ignore_patterns \/ parts[i][1] = "."

\* C9: on_any_event discards an event if and only if some segment of its
\* path equals a member of the ignore set (whole segments, not substrings).
C9_DiscardIffIgnoredSegment ==
    f_outcome /= "pending" =>
        (f_outcome = "discarded" <=> HasIgnoreSetSegment(f_event.parts))

\* the entries of the vault no segment of whose path is ignored
\* the entries a walk can come to: those with no unlistable directory above
Listable ==
    {e \in vault : \A k \in 0..(Len(e.path) - 1) : SubSeq(e.path, 1, k) \notin denied}

Visible == {e \in Listable : ~HasIgnoredSegment(vault_path \o e.path)}

\* C10: an entry whose path has an ignored segment (a name of the ignore set
\* or a dot-prefixed name) has no line in the tree body, nor has anything
\* beneath it, and it adds to none of the four counters: the counters are
\* those of the other entries alone.
C10_IgnoredEntriesAbsent ==
    r_done =>
        /\ \A i \in 1..Len(tree_lines) :
              tree_lines[i].kind /= "denied" =>
                  ~HasIgnoredSegment(vault_path \o tree_lines[i].item)
        /\ stats.total_folders = Cardinality({e \in Visible : e.kind = "dir"})
        /\ stats.total_files = Cardinality({e \in Visible : e.kind = "file"})
        /\ stats.md_files + stats.other_files
              = Cardinality({e \in Visible : e.kind = "file"
                                /\ HasSupportedExtension(Last(e.path))})

\* a rendered vault with a note below an ignored directory, beside entries
\* that are rendered
C10_Witness ==
    /\ r_done
    /\ \E e \in vault :
          /\ Len(e.path) = 2
          /\ HasIgnoredSegment(<<e.path[1]>>)
          /\ ~HasIgnoredSegment(<<e.path[2]>>)
    /\ Len(tree_lines) >= 2
    /\ ~HasIgnoredSegment(vault_path)

\* whether path p is q or a directory above q
IsPrefix(p, q) == Len(p) <= Len(q) /\ SubSeq(q, 1, Len(p)) = p

\* the lines made for entries (the marker lines left out)
EntryLines == {i \in 1..Len(tree_lines) : tree_lines[i].kind \in {"dir", "file"}}

\* C11: among the lines of one directory all subdirectory lines come before
\* all file lines and the names of each group never decrease; the lines made
\* beneath a subdirectory follow its own line at once, as one block, before
\* its next sibling.
C11_OrderedDepthFirst ==
    r_done =>
        /\ \A i, j \in EntryLines :
              (i < j /\ tree_lines[i].parent = tree_lines[j].parent) =>
                  /\ tree_lines[i].kind = "file" => tree_lines[j].kind = "file"
                  /\ tree_lines[i].kind = tree_lines[j].kind =>
                        ~StrLess(tree_lines[j].name, tree_lines[i].name)
        /\ \A i \in EntryLines :
              tree_lines[i].kind = "dir" =>
                  LET below == {j \in 1..Len(tree_lines) :
                                  IsPrefix(tree_lines[i].item, tree_lines[j].parent)}
                  IN  below = (i + 1)..(i + Cardinality(below))

\* a rendered directory with two subdirectories and a file, the first
\* subdirectory having lines beneath it
C11_Witness ==
    /\ r_done
    /\ \E i, j, k \in EntryLines :
          /\ i < j /\ j < k
          /\ tree_lines[i].parent = tree_lines[j].parent
          /\ tree_lines[j].parent = tree_lines[k].parent
          /\ tree_lines[i].kind = "dir" /\ tree_lines[j].kind = "dir"
          /\ tree_lines[k].kind = "file"
          /\ tree_lines[i + 1].parent = tree_lines[i].item

\* the unlistable directories the walk comes to below the root
DeniedShown == {d \in denied : d /= <<>> /\ Dir(d) \in Visible}

\* the indices of the lines made for, or for the listing of, the directory d
LinesFor(d) == {i \in 1..Len(tree_lines) : tree_lines[i].item = d}

\* the entry lines of a tree body whose entry the walk can come to
RECURSIVE ListableLines(_)
ListableLines(lines) ==
    IF lines = <<>> THEN <<>>
    ELSE LET l == lines[1]
             keep == /\ l.kind /= "denied"
                     /\ \A k \in 0..(Len(l.item) - 1) : SubSeq(l.item, 1, k) \notin denied
         IN  (IF keep THEN <<l>> ELSE <<>>) \o ListableLines(Tail(lines))

\* the render goes on past an unlistable directory: beside the markers the
\* tree body is the one of the same vault with every directory listable,
\* less the lines beneath the unlistable ones
RenderNotAborted ==
    ListableLines(tree_lines)
        = ListableLines(GenerateTreeStructure(vault, vault_path, <<>>, <<>>, {}))

\* C12 (as stated): the render goes on, and an unlistable subdirectory has one
\* line only in the tree body, the marker, in the place of its own line.
C12_MarkerSubstituted ==
    r_done =>
        /\ RenderNotAborted
        /\ \A d \in DeniedShown :
              \E i \in 1..Len(tree_lines) :
                  /\ LinesFor(d) = {i}
                  /\ tree_lines[i].kind = "denied"

\* C12 (amended): the render goes on, and an unlistable subdirectory has its
\* own directory line, then exactly one marker line right beneath it, one
\* level deeper, and no other line for it or beneath it.
C12_MarkerBeneathOwnLine ==
    r_done =>
        /\ RenderNotAborted
        /\ \A d \in DeniedShown :
              \E i \in 1..(Len(tree_lines) - 1) :
                  /\ LinesFor(d) = {i, i + 1}
                  /\ tree_lines[i].kind = "dir"
                  /\ tree_lines[i + 1].kind = "denied"
                  /\ Len(tree_lines[i + 1].prefix) = Len(tree_lines[i].prefix) + 1
                  /\ \A j \in 1..Len(tree_lines) :
                        IsPrefix(d, tree_lines[j].parent) => j = i + 1

\* an unlistable directory holding a note, beside a sibling directory whose
\* note is rendered
C12_Witness ==
    /\ r_done
    /\ \E d \in DeniedShown :
          /\ \E e \in vault : Len(e.path) = Len(d) + 1 /\ IsPrefix(d, e.path)
          /\ \E i, j \in EntryLines :
                /\ tree_lines[i].kind = "dir"
                /\ tree_lines[i].item /= d
                /\ tree_lines[i].parent = SubSeq(d, 1, Len(d) - 1)
                /\ tree_lines[j].parent = tree_lines[i].item

\* C13: when the root itself cannot be listed, generate_tree_markdown gives
\* its caller an error and no document; an unlistable directory below the
\* root gives a marker line in the document.
C13_RootFailureIsFatal ==
    r_done =>
        /\ <<>> \in denied => r_result = "error"
        /\ <<>> \notin denied =>
              \A d \in DeniedShown :
                  \E i \in LinesFor(d) : tree_lines[i].kind = "denied"

\* whether line i is the last line of its sibling group, the lines made by
\* the listing of one directory
IsLastSibling(i) ==
    \A j \in 1..Len(tree_lines) :
        tree_lines[j].parent = tree_lines[i].parent => j <= i

\* C18: the last line of every sibling group, marker lines included, has the
\* corner branch marker and every other line the tee; the lines of the root
\* have an empty prefix and the lines beneath a directory have its line's
\* prefix extended by a gap when that line was the last sibling and by a bar
\* otherwise.
C18_BranchMarkersAndPrefixes ==
    r_done =>
        \A i \in 1..Len(tree_lines) :
            /\ tree_lines[i].branch = (IF IsLastSibling(i) THEN "corner" ELSE "tee")
            /\ tree_lines[i].parent = <<>> => tree_lines[i].prefix = <<>>
            /\ \A j \in 1..Len(tree_lines) :
                  (tree_lines[i].kind = "dir" /\ tree_lines[j].parent = tree_lines[i].item) =>
                      tree_lines[j].prefix
                          = Append(tree_lines[i].prefix,
                                   IF IsLastSibling(i) THEN "gap" ELSE "bar")

\* C19: the counters of one walk are the number of non-ignored directories,
\* the number of non-ignored files, the number of those files that have a
\* supported extension (the notes) and the number of the remaining files.
C19_TreeStats ==
    r_done =>
        LET fileset == {e \in Visible : e.kind = "file"}
            notes == {e \in fileset : HasSupportedExtension(Last(e.path))}
        IN  /\ stats.total_folders = Cardinality({e \in Visible : e.kind = "dir"})
            /\ stats.total_files = Cardinality(fileset)
            /\ stats.md_files = Cardinality(notes)
            /\ stats.other_files = Cardinality(fileset \ notes)

\* C20: a render of a root holding exactly notes/a.md, notes/b.md,
\* archive/old.md and .obsidian/config.json, every directory listable, yields
\* the counters 2, 3, 3, 0 and a tree body that names neither .obsidian nor
\* config.json.
C20_ScenarioCounters ==
    (r_done /\ r_result = "document" /\ vault = ScenarioVault /\ denied = {}) =>
        /\ stats = [total_folders |-> 2, total_files |-> 3,
                    md_files |-> 3, other_files |-> 0]
        /\ \A i \in 1..Len(tree_lines) :
              tree_lines[i].name \notin {DotObsidian, ConfigJson}

(***************************************************************************)
(* Properties of the activity log sink, the signal handler and get_status  *)
(***************************************************************************)

\* C14: a step whose log_activity call raises still does what it was called
\* for and returns normally: a regeneration that rendered and could write
\* still writes the output file, the start still sets the flag and reports
\* no failure, the stop still clears the flag and reports no failure, and no
\* exception reaches the caller.
C14_SinkFailureIsSwallowed ==
    [][call'.log = "raised" =>
          /\ call'.out \notin {"sink_failed", "error", "raised"}
          /\ (call'.op = "timer_update"
                /\ call'.out \notin {"render_failed", "write_failed"}) =>
                tree_file'.exists
          /\ (call'.op = "start_update"
                /\ call'.out \notin {"render_failed", "write_failed"}) =>
                tree_file' = FileOf(main.read)
          /\ call'.op = "start_flag" => is_watching'
          /\ call'.op = "stop_watching" => ~is_watching']_vars

\* C15: when the process has exited on a signal, at whatever statement the
\* signal was delivered, no listener that was started is still running: the
\* handler has stopped and joined it.
C15_SignalStopsListener == main.pc = "exited" => alive = {}

\* C16: get_status changes nothing - not the flag, the Observer handle, the
\* running listeners, the scheduled or running regenerations, the output file
\* or the activity log - and the is_watching it returns is the flag.
C16_StatusIsPureRead ==
    [][call'.op = "get_status" =>
          /\ call'.out = (IF is_watching THEN "watching" ELSE "idle")
          /\ call'.log = "none"
          /\ UNCHANGED <<is_watching, observer, alive, last_update, timers,
                         regens, nTimers, main, tree_file>>]_vars

\* get_status has just returned while a session is active, a Timer is
\* waiting and the output file exists
C16_Witness ==
    /\ call.op = "get_status"
    /\ call.out = "watching"
    /\ timers /= {}
    /\ tree_file.exists

\* C17: when start_watching reports a failure or raises, the flag is false
\* and no listener runs afterwards; and the flag is true only while the
\* listener that start_watching started is running.
C17_FailedStartIsIdle ==
    /\ [][(call'.op \in {"start_observe", "start_flag"}
             /\ call'.out \in {"error", "raised"}) =>
            (~is_watching' /\ alive' = {})]_vars
    /\ [](is_watching => observer \in alive)

(***************************************************************************)
(* Further properties of the renderer                                      *)
(***************************************************************************)

LinesOfKind(kind) ==
    Cardinality({i \in 1..Len(tree_lines) : tree_lines[i].kind = kind})

\* C29: after a render in which every directory could be listed, the tree
\* body has total_folders directory lines and md_files + other_files file
\* lines, and that sum is at most total_files.
C29_TreeAgreesWithCounters ==
    (r_done /\ denied = {}) =>
        /\ LinesOfKind("dir") = stats.total_folders
        /\ LinesOfKind("file") = stats.md_files + stats.other_files
        /\ stats.md_files + stats.other_files <= stats.total_files

\* a rendered vault with a nested note, and a file the tree does not list
C29_Witness ==
    /\ r_done
    /\ denied = {}
    /\ \E i \in 1..Len(tree_lines) :
          tree_lines[i].kind = "file" /\ Len(tree_lines[i].item) >= 2
    /\ stats.md_files + stats.other_files < stats.total_files

\* the directories, and the files with a supported extension, whose path
\* below the root has no ignored segment
NamedBelowRoot ==
    {e \in vault : /\ ~HasIgnoredSegment(e.path)
                   /\ (e.kind = "dir" \/ HasSupportedExtension(Last(e.path)))}

\* C30: whatever the segments of the root path are, every directory and
\* every file with a supported extension whose path below the root has no
\* ignored segment has its line in the tree body and is counted.
C30_RootPathDoesNotMatter ==
    (r_done /\ denied = {}) =>
        /\ \A e \in NamedBelowRoot :
              \E i \in 1..Len(tree_lines) :
                  tree_lines[i].item = e.path /\ tree_lines[i].kind = e.kind
        /\ stats.total_folders
              = Cardinality({e \in NamedBelowRoot : e.kind = "dir"})
        /\ stats.md_files + stats.other_files
              = Cardinality({e \in NamedBelowRoot : e.kind = "file"})

\* C27: every event the handler discards by its ignore test is for a path
\* that _should_ignore excludes from the tree and the counters too.
C27_FilterHidesNoVisibleChange ==
    f_outcome = "discarded" => ShouldIgnore(f_event.parts)

\* an event for a path below .github, no segment of which is in the ignore
\* set, has been discarded
C27_Witness ==
    /\ f_outcome = "discarded"
    /\ \E i \in 1..Len(f_event.parts) : f_event.parts[i] = DotGithub
    /\ \A i \in 1..Len(f_event.parts) : f_event.parts[i] \notin ignore_patterns

(***************************************************************************)
(* Further properties of the debounce gate                                 *)
(***************************************************************************)

C25_NoEarlyRegeneration ==
    /\ [][\A t \in timers' \ timers : now > created[t.by] + update_delay]_vars
    /\ [][is_watching =>
            \A t \in timers \ timers' :
                now >= created[observer] + 2 * update_delay]_vars

(***************************************************************************)
(* Further properties of update_tree_structure and of the commands         *)
(***************************************************************************)

\* C26: when generate_tree_markdown raises inside update_tree_structure, the
\* output file is afterwards exactly what it was before the call (it is
\* opened only once the document exists) and no exception reaches the
\* caller.
C26_FailedRenderLeavesFile ==
    [][(call'.op \in {"start_update", "timer_update"}
          /\ call'.out \in {"render_failed", "sink_failed"}) =>
            (tree_file' = tree_file /\ call'.out /= "raised")]_vars

\* a timer-fired regeneration has just failed to render while the output
\* file of an earlier regeneration exists
C26_Witness ==
    /\ call.op = "timer_update"
    /\ call.out = "render_failed"
    /\ tree_file.exists
    /\ tree_file /= TornFile

\* C21: a process ended by an exception that escaped a command has printed
\* a message and exits with a non-zero status; a process ended by a signal
\* while watching has stopped watching and exits with status zero.
C21_ExitStatus ==
    main.pc = "exited" =>
        /\ call.op = "command_error" =>
              (call.out = "printed" /\ exit_status = "nonzero")
        /\ (call.op = "signal" /\ call.out = "stopped") =>
              (~is_watching /\ exit_status = "zero")

\* C24: the stop-watch command run while a session of watch-vault is active
\* stops the session's listener and ends the session.
C24_StopWatchCommandStops ==
    [][(call'.op = "stop_watch_command" /\ is_watching) =>
            (~is_watching' /\ alive' = {})]_vars

(***************************************************************************)
(* Properties of the activity log                                          *)
(***************************************************************************)

\* C28: when the call of a timer-fired regeneration and the call of the
\* primary context have both finished, however their steps interleaved, the
\* JSON log is a complete document that holds the entry of each.
C28_NoLogEntryLost ==
    (\A c \in LogContexts : logger[c].pc = "done") =>
        /\ json_log.ok
        /\ \A c \in LogContexts :
              \E i \in 1..Len(json_log.entries) : json_log.entries[i] = c

====
